---------------------------- MODULE Spec2Model ----------------------------
(***************************************************************************)
(* State-machine model of src/app.py: an in-memory Flask election backend. *)
(* The module-level dictionaries and counters of app.py are the variables, *)
(* every route handler is an action.  Handlers are modelled twice where    *)
(* concurrency matters: once as one atomic step (requests served one after *)
(* the other) and once as the sequence of reads and writes a worker thread *)
(* performs (app.run(..., threaded=True), no lock anywhere in the file).   *)
(***************************************************************************)
EXTENDS Integers, Sequences, FiniteSets, TLC

(***************************************************************************)
(* Bounds of the model.                                                    *)
(***************************************************************************)
MaxVoters == 2
MaxCands == 2
MaxVotes == 2
MaxClock == 1
MaxNullifiers == 2
MaxBallots == 3
MaxRanked == 2
MaxOverdraw == 6
NThreads == 2

(***************************************************************************)
(* Program constants.                                                      *)
(***************************************************************************)
VoteCounterInit == 100
BallotCounterInit == 7000
MinAge == 18
MinProofLen == 10
NameWeightLen == 5
\* privacy_budget["epsilon"] is kept in quarters: 8 quarters = 2.0.  Every
\* epsilon of EpsInputs is a multiple of 0.25, so the float arithmetic of
\* the program is exact on these values.
EpsilonInit == 8
DefaultEpsilon == 2

VoterIds == 1..MaxVoters
CandIds == 1..MaxCands
Names == {"Ann", "Robert"}
Ages == {17, 18}
Elections == {"nat-2025", "mun-2025"}
Nullifiers == 1..MaxNullifiers
Ciphertexts == {"ct_a", "ct_b"}
\* "" stands for a falsy zk_proof / signature (None or the empty string).
Proofs == {"", "short", "zkproof_0123456789"}
Signatures == {"", "sig_ed25519"}
Threads == 1..NThreads
\* epsilon and delta of a dp_analytics request: epsilon in quarters (2 is the
\* default 0.5), delta in millionths (1 is the default 1e-6).
EpsInputs == {-2, 0, 1, DefaultEpsilon, 3}
DeltaInputs == {0, 1, 10, 2000000}
\* ballot ids random.randint(1000, 9999) may return.
RankedIdDraws == {1000, 1001}
Rankings == {<<1, 2>>, <<2, 1>>}

VARIABLES
    voters,             \* voter_id -> [name, age, has_voted, profile_updated]
    candidates,         \* candidate_id -> [votes]
    votes,              \* vote_id -> vote record
    vote_timeline,      \* candidate_id -> sequence of [vote_id, timestamp]
    vote_counter,
    encrypted_ballots,  \* ballot_id -> encrypted ballot record
    ballot_counter,
    privacy_budget,     \* remaining epsilon, in quarters
    ranked_ballots,     \* election_id -> sequence of ranked ballots
    audits,             \* audit_id -> audit record
    clock,              \* the wall clock read by get_timestamp()
    response,           \* the response of the last request served atomically
    pc,                 \* per worker thread: the statement it is about to run
    loc                 \* per worker thread: its request, locals and response

vars == <<voters, candidates, votes, vote_timeline, vote_counter,
          encrypted_ballots, ballot_counter, privacy_budget, ranked_ballots,
          audits, clock, response, pc, loc>>

votingVars == <<voters, candidates, votes, vote_timeline, vote_counter>>
ballotVars == <<encrypted_ballots, ballot_counter>>
threadVars == <<pc, loc>>

(***************************************************************************)
(* Python dict helpers.                                                    *)
(***************************************************************************)
Put(d, k, v) == [x \in (DOMAIN d) \cup {k} |-> IF x = k THEN v ELSE d[x]]

Del(d, k) == [x \in (DOMAIN d) \ {k} |-> d[x]]

EmptyDict == [x \in {} |-> 0]

NoLocals == [op |-> "none"]

NoResponse == [op |-> "none", status |-> 0, message |-> ""]

Reply(op, status, message) ==
    [op |-> op, status |-> status, message |-> message]

Init ==
    /\ voters = EmptyDict
    /\ candidates = EmptyDict
    /\ votes = EmptyDict
    /\ vote_timeline = [c \in CandIds |-> <<>>]
    /\ vote_counter = VoteCounterInit
    /\ encrypted_ballots = EmptyDict
    /\ ballot_counter = BallotCounterInit
    /\ privacy_budget = EpsilonInit
    /\ ranked_ballots = [e \in Elections |-> <<>>]
    /\ audits = EmptyDict
    /\ clock = 0
    /\ response = NoResponse
    /\ pc = [t \in Threads |-> "idle"]
    /\ loc = [t \in Threads |-> NoLocals]

(***************************************************************************)
(* Validation helpers of app.py.                                           *)
(***************************************************************************)
is_valid_age(age) == age >= MinAge

voter_exists(voter_id) == voter_id \in DOMAIN voters

candidate_exists(candidate_id) == candidate_id \in DOMAIN candidates

(***************************************************************************)
(* Voter and candidate registry, one request at a time.                    *)
(***************************************************************************)
create_voter(voter_id, name, age, missing) ==
    /\ IF missing
       THEN /\ response' = Reply("create_voter", 422, "missing field")
            /\ UNCHANGED voters
       ELSE IF voter_id \in DOMAIN voters
       THEN /\ response' = Reply("create_voter", 409, "voter exists")
            /\ UNCHANGED voters
       ELSE IF ~is_valid_age(age)
       THEN /\ response' = Reply("create_voter", 422, "invalid age")
            /\ UNCHANGED voters
       ELSE /\ voters' = Put(voters, voter_id,
                             [name |-> name, age |-> age, has_voted |-> FALSE,
                              profile_updated |-> FALSE])
            /\ response' = Reply("create_voter", 218, "")
    /\ UNCHANGED <<candidates, votes, vote_timeline, vote_counter, ballotVars,
                   privacy_budget, ranked_ballots, audits, clock, threadVars>>

update_voter(voter_id, has_name, name, has_age, age) ==
    /\ IF ~voter_exists(voter_id)
       THEN /\ response' = Reply("update_voter", 417, "voter not found")
            /\ UNCHANGED voters
       ELSE IF has_age /\ ~is_valid_age(age)
       THEN /\ response' = Reply("update_voter", 422, "invalid age")
            /\ UNCHANGED voters
       ELSE /\ voters' = [voters EXCEPT
                            ![voter_id].name = IF has_name THEN name ELSE @,
                            ![voter_id].age = IF has_age THEN age ELSE @]
            /\ response' = Reply("update_voter", 224, "")
    /\ UNCHANGED <<candidates, votes, vote_timeline, vote_counter, ballotVars,
                   privacy_budget, ranked_ballots, audits, clock, threadVars>>

delete_voter(voter_id) ==
    /\ IF ~voter_exists(voter_id)
       THEN /\ response' = Reply("delete_voter", 417, "voter not found")
            /\ UNCHANGED voters
       ELSE /\ voters' = Del(voters, voter_id)
            /\ response' = Reply("delete_voter", 225, "")
    /\ UNCHANGED <<candidates, votes, vote_timeline, vote_counter, ballotVars,
                   privacy_budget, ranked_ballots, audits, clock, threadVars>>

register_candidate(candidate_id) ==
    /\ IF candidate_id \in DOMAIN candidates
       THEN /\ response' = Reply("register_candidate", 409, "candidate exists")
            /\ UNCHANGED candidates
       ELSE /\ candidates' = Put(candidates, candidate_id, [votes |-> 0])
            /\ response' = Reply("register_candidate", 226, "")
    /\ UNCHANGED <<voters, votes, vote_timeline, vote_counter, ballotVars,
                   privacy_budget, ranked_ballots, audits, clock, threadVars>>

(***************************************************************************)
(* Voting, one request at a time.                                          *)
(***************************************************************************)
\* A vote stored by cast_vote has no "weight" key and counts 1.
VoteWeight(vote) == IF "weight" \in DOMAIN vote THEN vote.weight ELSE 1

\* Line 263: weight 2 when the voter's name is longer than 5 characters.
weight_of(voter_id) ==
    IF Len(voters[voter_id].name) > NameWeightLen THEN 2 ELSE 1

\* cast_vote marking the voter before the candidate is looked up.
cast_voteMarksFirst(voter_id, candidate_id) ==
    /\ IF ~voter_exists(voter_id)
       THEN /\ response' = Reply("cast_vote", 417, "voter not found")
            /\ UNCHANGED <<votingVars, clock>>
       ELSE IF ~candidate_exists(candidate_id)
       THEN /\ response' = Reply("cast_vote", 417, "candidate not found")
            /\ voters' = [voters EXCEPT ![voter_id].has_voted = TRUE]
            /\ UNCHANGED <<candidates, votes, vote_timeline, vote_counter, clock>>
       ELSE IF voters[voter_id].has_voted
       THEN /\ response' = Reply("cast_vote", 423, "already voted")
            /\ UNCHANGED <<votingVars, clock>>
       ELSE /\ vote_counter < VoteCounterInit + MaxVotes
            /\ \E timestamp \in clock..MaxClock :
                 LET id == vote_counter + 1
                     vote == [vote_id |-> id, voter_id |-> voter_id,
                              candidate_id |-> candidate_id,
                              timestamp |-> timestamp]
                 IN /\ clock' = timestamp
                    /\ vote_counter' = id
                    /\ votes' = Put(votes, id, vote)
                    /\ voters' = [voters EXCEPT ![voter_id].has_voted = TRUE]
                    /\ candidates' = [candidates EXCEPT
                                        ![candidate_id].votes = @ + 1]
                    /\ vote_timeline' = [vote_timeline EXCEPT
                                           ![candidate_id] = Append(@,
                                              [vote_id |-> id,
                                               timestamp |-> timestamp])]
                    /\ response' = Reply("cast_vote", 228, "")
    /\ UNCHANGED <<ballotVars, privacy_budget, ranked_ballots, audits, threadVars>>

cast_vote(voter_id, candidate_id) ==
    /\ IF ~voter_exists(voter_id)
       THEN /\ response' = Reply("cast_vote", 417, "voter not found")
            /\ UNCHANGED <<votingVars, clock>>
       ELSE IF ~candidate_exists(candidate_id)
       THEN /\ response' = Reply("cast_vote", 417, "candidate not found")
            /\ UNCHANGED <<votingVars, clock>>
       ELSE IF voters[voter_id].has_voted
       THEN /\ response' = Reply("cast_vote", 423, "already voted")
            /\ UNCHANGED <<votingVars, clock>>
       ELSE /\ vote_counter < VoteCounterInit + MaxVotes
            /\ \E timestamp \in clock..MaxClock :
                 LET id == vote_counter + 1
                     vote == [vote_id |-> id, voter_id |-> voter_id,
                              candidate_id |-> candidate_id,
                              timestamp |-> timestamp]
                 IN /\ clock' = timestamp
                    /\ vote_counter' = id
                    /\ votes' = Put(votes, id, vote)
                    /\ voters' = [voters EXCEPT ![voter_id].has_voted = TRUE]
                    /\ candidates' = [candidates EXCEPT
                                        ![candidate_id].votes = @ + 1]
                    /\ vote_timeline' = [vote_timeline EXCEPT
                                           ![candidate_id] = Append(@,
                                              [vote_id |-> id,
                                               timestamp |-> timestamp])]
                    /\ response' = Reply("cast_vote", 228, "")
    /\ UNCHANGED <<ballotVars, privacy_budget, ranked_ballots, audits, threadVars>>

cast_weighted_vote(voter_id, candidate_id) ==
    /\ IF ~voter_exists(voter_id)
       THEN /\ response' = Reply("cast_weighted_vote", 417, "voter not found")
            /\ UNCHANGED votingVars
       ELSE IF ~candidate_exists(candidate_id)
       THEN /\ response' = Reply("cast_weighted_vote", 417, "candidate not found")
            /\ UNCHANGED votingVars
       ELSE IF voters[voter_id].has_voted
       THEN /\ response' = Reply("cast_weighted_vote", 423, "already voted")
            /\ UNCHANGED votingVars
       ELSE /\ vote_counter < VoteCounterInit + MaxVotes
            /\ LET weight == weight_of(voter_id)
                   id == vote_counter + 1
                   vote == [vote_id |-> id, voter_id |-> voter_id,
                            candidate_id |-> candidate_id, weight |-> weight]
               IN /\ vote_counter' = id
                  /\ votes' = Put(votes, id, vote)
                  /\ voters' = [voters EXCEPT ![voter_id].has_voted = TRUE]
                  /\ candidates' = [candidates EXCEPT
                                      ![candidate_id].votes = @ + weight]
                  /\ UNCHANGED vote_timeline
                  /\ response' = Reply("cast_weighted_vote", 234, "")
    /\ UNCHANGED <<ballotVars, privacy_budget, ranked_ballots, audits, clock, threadVars>>

get_vote_timeline(candidate_id) ==
    /\ IF ~candidate_exists(candidate_id)
       THEN response' = Reply("get_vote_timeline", 417, "candidate not found")
       ELSE response' = [op |-> "get_vote_timeline", status |-> 233,
                         message |-> "",
                         timeline |-> vote_timeline[candidate_id]]
    /\ UNCHANGED <<votingVars, ballotVars, privacy_budget, ranked_ballots, audits,
                   clock, threadVars>>

\* Lines 280-301.  from_time and to_time are the query strings, compared as
\* strings; for timestamps of one format that is the order of the instants,
\* modelled by the order of the clock values.
InRange(candidate_id, from_time, to_time) ==
    {i \in 1..Len(vote_timeline[candidate_id]) :
        /\ from_time <= vote_timeline[candidate_id][i].timestamp
        /\ vote_timeline[candidate_id][i].timestamp <= to_time}

get_range_votes(candidate_id, from_time, to_time) ==
    /\ IF ~candidate_exists(candidate_id)
       THEN response' = Reply("get_range_votes", 417, "candidate not found")
       ELSE IF from_time >= to_time
            THEN response' = Reply("get_range_votes", 424,
                                   "invalid interval: from > to")
            ELSE response' = [op |-> "get_range_votes", status |-> 235,
                              message |-> "",
                              votes_gained |->
                                  Cardinality(InRange(candidate_id, from_time,
                                                      to_time))]
    /\ UNCHANGED <<votingVars, ballotVars, privacy_budget, ranked_ballots, audits,
                   clock, threadVars>>

(***************************************************************************)
(* The registry and the vote endpoints, requests served one at a time.     *)
(***************************************************************************)
RegistryNext ==
    \/ \E v \in VoterIds, n \in Names, a \in Ages, m \in BOOLEAN :
         create_voter(v, n, a, m)
    \/ \E v \in VoterIds, hn \in BOOLEAN, n \in Names, ha \in BOOLEAN, a \in Ages :
         update_voter(v, hn, n, ha, a)
    \/ \E v \in VoterIds : delete_voter(v)
    \/ \E c \in CandIds : register_candidate(c)

Next ==
    \/ RegistryNext
    \/ \E v \in VoterIds, c \in CandIds : cast_vote(v, c)
    \/ \E v \in VoterIds, c \in CandIds : cast_weighted_vote(v, c)
    \/ \E c \in CandIds : get_vote_timeline(c)
    \/ \E c \in CandIds, f \in 0..MaxClock, t \in 0..MaxClock :
         get_range_votes(c, f, t)

Spec == Init /\ [][Next]_vars

(***************************************************************************)
(* Encrypted ballots, one request at a time.                               *)
(***************************************************************************)
RECURSIVE HexDigits(_)
\* hex(n)[2:] as the sequence of its hexadecimal digits, most significant
\* first: 7000 is <<1, 11, 5, 8>> ("1b58").
HexDigits(n) ==
    IF n < 16 THEN <<n>> ELSE Append(HexDigits(n \div 16), n % 16)

\* Line 325: f"b_{hex(ballot_counter)[2:]}"; the constant prefix is left out.
BallotId(counter) == HexDigits(counter)

\* Line 317: "not zk_proof or len(zk_proof) < 10".
ProofRejected(zk_proof) == zk_proof = "" \/ Len(zk_proof) < MinProofLen

\* NullifierUsed with the scan cut short: only the ballot stored last is
\* compared.
NullifierUsedLastOnly(nullifier) ==
    \E b \in DOMAIN encrypted_ballots :
        /\ b = BallotId(ballot_counter - 1)
        /\ encrypted_ballots[b].nullifier = nullifier

\* Lines 321-323: the scan of the stored ballots for the nullifier.
NullifierUsed(nullifier) ==
    \E b \in DOMAIN encrypted_ballots :
        encrypted_ballots[b].nullifier = nullifier

NewBallot(ballot_id, election_id, ciphertext, zk_proof, nullifier, signature, anchored_at) ==
    [ballot_id |-> ballot_id, election_id |-> election_id,
     ciphertext |-> ciphertext, zk_proof |-> zk_proof,
     nullifier |-> nullifier, signature |-> signature,
     status |-> "accepted", anchored_at |-> anchored_at]

encrypted_ballot(election_id, ciphertext, zk_proof, nullifier, signature) ==
    /\ IF ProofRejected(zk_proof)
       THEN /\ response' = Reply("encrypted_ballot", 425, "invalid zk proof")
            /\ UNCHANGED <<ballotVars, clock>>
       ELSE IF NullifierUsed(nullifier)
       THEN /\ response' = Reply("encrypted_ballot", 409, "double voting detected")
            /\ UNCHANGED <<ballotVars, clock>>
       ELSE /\ ballot_counter < BallotCounterInit + MaxBallots
            /\ \E timestamp \in clock..MaxClock :
                 LET ballot_id == BallotId(ballot_counter) IN
                 /\ clock' = timestamp
                 /\ ballot_counter' = ballot_counter + 1
                 /\ encrypted_ballots' =
                      Put(encrypted_ballots, ballot_id,
                          NewBallot(ballot_id, election_id, ciphertext,
                                    zk_proof, nullifier, signature, timestamp))
                 /\ response' = [op |-> "encrypted_ballot", status |-> 236,
                                 message |-> "", ballot_id |-> ballot_id,
                                 nullifier |-> nullifier]
    /\ UNCHANGED <<votingVars, privacy_budget, ranked_ballots, audits, threadVars>>

NextEnc ==
    \E e \in Elections, c \in Ciphertexts, p \in Proofs, n \in Nullifiers,
       s \in Signatures : encrypted_ballot(e, c, p, n, s)

SpecEnc == Init /\ [][NextEnc]_vars

(***************************************************************************)
(* The three submission endpoints together, one request at a time.         *)
(***************************************************************************)
NextSubmit ==
    \/ \E v \in VoterIds, n \in Names : create_voter(v, n, MinAge, FALSE)
    \/ \E c \in CandIds : register_candidate(c)
    \/ \E v \in VoterIds, c \in CandIds : cast_vote(v, c)
    \/ \E v \in VoterIds, c \in CandIds : cast_weighted_vote(v, c)
    \/ \E p \in Proofs, n \in Nullifiers :
         encrypted_ballot("nat-2025", "ct_a", p, n, "sig_ed25519")

SpecSubmit == Init /\ [][NextSubmit]_vars

(***************************************************************************)
(* Voting under app.run(threaded=True): every request runs in a worker     *)
(* thread of its own, which ends when the handler returns, and the         *)
(* handlers take no lock.  A thread step is one read                       *)
(* or one write of the shared module state; "x += 1" on shared state is a  *)
(* read step followed by a write step.  The two existence checks of lines  *)
(* 169-173 are one step: no voter or candidate is removed in SpecVoteConc, *)
(* so both answers are what they would be at the second check.             *)
(***************************************************************************)
Request(op, voter_id, candidate_id) ==
    [op |-> op, voter_id |-> voter_id, candidate_id |-> candidate_id,
     status |-> 0, tmp |-> 0, timestamp |-> 0, weight |-> 0, vote_id |-> 0]

Goto(t, label) == pc' = [pc EXCEPT ![t] = label]

\* The handler returns: the thread keeps the request and the status sent.
Return(t, status) ==
    /\ pc' = [pc EXCEPT ![t] = "done"]
    /\ loc' = [loc EXCEPT ![t] = [Request(loc[t].op, loc[t].voter_id,
                                          loc[t].candidate_id)
                                  EXCEPT !.status = status,
                                         !.weight = loc[t].weight]]

\* Lines 164-173 and 248-257.
vote_begin(t, op, voter_id, candidate_id) ==
    /\ pc[t] = "idle"
    /\ IF voter_exists(voter_id) /\ candidate_exists(candidate_id)
       THEN /\ Goto(t, "check_voted")
            /\ loc' = [loc EXCEPT ![t] = Request(op, voter_id, candidate_id)]
       ELSE /\ pc' = [pc EXCEPT ![t] = "done"]
            /\ loc' = [loc EXCEPT ![t] =
                         [Request(op, voter_id, candidate_id)
                          EXCEPT !.status = 417]]
    /\ UNCHANGED <<votingVars, ballotVars, privacy_budget, ranked_ballots, audits,
                   clock, response>>

\* Lines 175-176 and 259-263.  The read of the voter's name (line 263) is
\* part of the step: no name changes in SpecVoteConc.
vote_check_voted(t) ==
    /\ pc[t] = "check_voted"
    /\ IF voters[loc[t].voter_id].has_voted
       THEN Return(t, 423)
       ELSE /\ Goto(t, "counter_read")
            /\ loc' = [loc EXCEPT ![t].weight =
                         IF loc[t].op = "cast_weighted_vote"
                         THEN weight_of(loc[t].voter_id) ELSE 1]
    /\ UNCHANGED <<votingVars, ballotVars, privacy_budget, ranked_ballots, audits,
                   clock, response>>

\* Lines 178 and 265, the load of "vote_counter += 1".
vote_counter_read(t) ==
    /\ pc[t] = "counter_read"
    /\ vote_counter < VoteCounterInit + MaxVotes
    /\ loc' = [loc EXCEPT ![t].tmp = vote_counter]
    /\ Goto(t, "counter_write")
    /\ UNCHANGED <<votingVars, ballotVars, privacy_budget, ranked_ballots, audits,
                   clock, response>>

\* Lines 178 and 265, the store of "vote_counter += 1"; line 179 for cast_vote.
vote_counter_write(t) ==
    /\ pc[t] = "counter_write"
    /\ vote_counter' = loc[t].tmp + 1
    /\ IF loc[t].op = "cast_vote"
       THEN \E timestamp \in clock..MaxClock :
              /\ clock' = timestamp
              /\ loc' = [loc EXCEPT ![t].timestamp = timestamp]
       ELSE UNCHANGED <<clock, loc>>
    /\ Goto(t, "build_vote")
    /\ UNCHANGED <<voters, candidates, votes, vote_timeline, ballotVars,
                   privacy_budget, ranked_ballots, audits, response>>

\* Lines 180-185 and 266-271: "vote_id": vote_counter reads the global again.
vote_build(t) ==
    /\ pc[t] = "build_vote"
    /\ loc' = [loc EXCEPT ![t].vote_id = vote_counter]
    /\ Goto(t, "store_vote")
    /\ UNCHANGED <<votingVars, ballotVars, privacy_budget, ranked_ballots, audits,
                   clock, response>>

ThreadVote(t) ==
    IF loc[t].op = "cast_vote"
    THEN [vote_id |-> loc[t].vote_id, voter_id |-> loc[t].voter_id,
          candidate_id |-> loc[t].candidate_id,
          timestamp |-> loc[t].timestamp]
    ELSE [vote_id |-> loc[t].vote_id, voter_id |-> loc[t].voter_id,
          candidate_id |-> loc[t].candidate_id, weight |-> loc[t].weight]

\* Lines 187-188 and 273-274: votes[vote_counter] = vote reads the global a
\* third time; then the has_voted flag is set.  One step: no handler reads
\* votes, so a has_voted check between the two writes sees what a check
\* before both sees.
vote_store(t) ==
    /\ pc[t] = "store_vote"
    /\ votes' = Put(votes, vote_counter, ThreadVote(t))
    /\ voters' = [voters EXCEPT ![loc[t].voter_id].has_voted = TRUE]
    /\ Goto(t, "count_read")
    /\ UNCHANGED <<candidates, vote_timeline, vote_counter, ballotVars,
                   privacy_budget, ranked_ballots, audits, clock, response, loc>>

\* Lines 189 and 275, the load of candidates[candidate_id]['votes'] += weight.
vote_count_read(t) ==
    /\ pc[t] = "count_read"
    /\ loc' = [loc EXCEPT ![t].tmp = candidates[loc[t].candidate_id].votes]
    /\ Goto(t, "count_write")
    /\ UNCHANGED <<votingVars, ballotVars, privacy_budget, ranked_ballots, audits,
                   clock, response>>

\* Lines 189-192 and 275-277: the store of the count, the timeline entry of
\* cast_vote (its vote_id is one more read of vote_counter) and the return.
vote_count_write(t) ==
    /\ pc[t] = "count_write"
    /\ candidates' = [candidates EXCEPT
                        ![loc[t].candidate_id].votes = loc[t].tmp + loc[t].weight]
    /\ IF loc[t].op = "cast_vote"
       THEN /\ vote_timeline' = [vote_timeline EXCEPT
                                   ![loc[t].candidate_id] = Append(@,
                                      [vote_id |-> vote_counter,
                                       timestamp |-> loc[t].timestamp])]
            /\ Return(t, 228)
       ELSE /\ UNCHANGED vote_timeline
            /\ Return(t, 234)
    /\ UNCHANGED <<voters, votes, vote_counter, ballotVars, privacy_budget,
                   ranked_ballots, audits, clock, response>>

VoteOps == {"cast_vote", "cast_weighted_vote"}

NextVoteConc ==
    \/ \E v \in VoterIds, n \in Names : create_voter(v, n, MinAge, FALSE)
    \/ \E c \in CandIds : register_candidate(c)
    \/ \E t \in Threads, op \in VoteOps, v \in VoterIds, c \in CandIds :
         vote_begin(t, op, v, c)
    \/ \E t \in Threads : vote_check_voted(t)
    \/ \E t \in Threads : vote_counter_read(t)
    \/ \E t \in Threads : vote_counter_write(t)
    \/ \E t \in Threads : vote_build(t)
    \/ \E t \in Threads : vote_store(t)
    \/ \E t \in Threads : vote_count_read(t)
    \/ \E t \in Threads : vote_count_write(t)

SpecVoteConc == Init /\ [][NextVoteConc]_vars

(***************************************************************************)
(* Encrypted ballots under app.run(threaded=True), one thread per request. *)
(***************************************************************************)
BallotRequest(election_id, ciphertext, zk_proof, nullifier, signature) ==
    [op |-> "encrypted_ballot", election_id |-> election_id,
     ciphertext |-> ciphertext, zk_proof |-> zk_proof,
     nullifier |-> nullifier, signature |-> signature,
     status |-> 0, tmp |-> 0, ballot_id |-> <<>>, timestamp |-> 0,
     seen |-> {}]

BallotReturn(t, status) ==
    /\ pc' = [pc EXCEPT ![t] = "done"]
    /\ loc' = [loc EXCEPT ![t].status = status, ![t].tmp = 0, ![t].seen = {}]

\* Lines 307-318: the proof check reads no shared state.
enc_begin(t, election_id, ciphertext, zk_proof, nullifier, signature) ==
    /\ pc[t] = "idle"
    /\ LET r == BallotRequest(election_id, ciphertext, zk_proof, nullifier,
                              signature)
       IN IF ProofRejected(zk_proof)
          THEN /\ pc' = [pc EXCEPT ![t] = "done"]
               /\ loc' = [loc EXCEPT ![t] = [r EXCEPT !.status = 425]]
          ELSE /\ Goto(t, "scan")
               /\ loc' = [loc EXCEPT ![t] = r]
    /\ UNCHANGED <<votingVars, ballotVars, privacy_budget, ranked_ballots, audits,
                   clock, response>>

\* Lines 321-323, the for loop over encrypted_ballots.values().  Over an
\* empty dict the loop ends at once.  Otherwise a matching ballot may be met
\* (409), or the loop goes on: the dict iterator raises RuntimeError when the
\* dict has grown between two of its steps.
enc_scan(t) ==
    /\ pc[t] = "scan"
    /\ \/ /\ encrypted_ballots = EmptyDict
          /\ Goto(t, "make_id")
          /\ UNCHANGED loc
       \/ /\ NullifierUsed(loc[t].nullifier)
          /\ BallotReturn(t, 409)
       \/ /\ encrypted_ballots # EmptyDict
          /\ Goto(t, "scan_end")
          /\ loc' = [loc EXCEPT ![t].seen = DOMAIN encrypted_ballots]
    /\ UNCHANGED <<votingVars, ballotVars, privacy_budget, ranked_ballots, audits,
                   clock, response>>

enc_scan_end(t) ==
    /\ pc[t] = "scan_end"
    /\ IF DOMAIN encrypted_ballots # loc[t].seen
       THEN BallotReturn(t, 500)
       ELSE IF NullifierUsed(loc[t].nullifier)
       THEN BallotReturn(t, 409)
       ELSE /\ Goto(t, "make_id")
            /\ loc' = [loc EXCEPT ![t].seen = {}]
    /\ UNCHANGED <<votingVars, ballotVars, privacy_budget, ranked_ballots, audits,
                   clock, response>>

\* Line 325.
enc_make_id(t) ==
    /\ pc[t] = "make_id"
    /\ loc' = [loc EXCEPT ![t].ballot_id = BallotId(ballot_counter)]
    /\ Goto(t, "counter_read")
    /\ UNCHANGED <<votingVars, ballotVars, privacy_budget, ranked_ballots, audits,
                   clock, response>>

\* Line 326, the load of "ballot_counter += 1".
enc_counter_read(t) ==
    /\ pc[t] = "counter_read"
    /\ loc' = [loc EXCEPT ![t].tmp = ballot_counter]
    /\ Goto(t, "counter_write")
    /\ UNCHANGED <<votingVars, ballotVars, privacy_budget, ranked_ballots, audits,
                   clock, response>>

\* Line 326, the store of "ballot_counter += 1", and line 337.
enc_counter_write(t) ==
    /\ pc[t] = "counter_write"
    /\ ballot_counter' = loc[t].tmp + 1
    /\ \E timestamp \in clock..MaxClock :
         /\ clock' = timestamp
         /\ loc' = [loc EXCEPT ![t].timestamp = timestamp, ![t].tmp = 0]
    /\ Goto(t, "store")
    /\ UNCHANGED <<votingVars, encrypted_ballots, privacy_budget,
                   ranked_ballots, audits, response>>

\* Lines 340-347.
enc_store(t) ==
    /\ pc[t] = "store"
    /\ encrypted_ballots' =
         Put(encrypted_ballots, loc[t].ballot_id,
             NewBallot(loc[t].ballot_id, loc[t].election_id,
                       loc[t].ciphertext, loc[t].zk_proof, loc[t].nullifier,
                       loc[t].signature, loc[t].timestamp))
    /\ BallotReturn(t, 236)
    /\ UNCHANGED <<votingVars, ballot_counter, privacy_budget, ranked_ballots, audits,
                   clock, response>>

NextEncConc ==
    \/ \E t \in Threads, e \in Elections, c \in Ciphertexts, p \in Proofs,
          n \in Nullifiers, s \in Signatures : enc_begin(t, e, c, p, n, s)
    \/ \E t \in Threads : enc_scan(t)
    \/ \E t \in Threads : enc_scan_end(t)
    \/ \E t \in Threads : enc_make_id(t)
    \/ \E t \in Threads : enc_counter_read(t)
    \/ \E t \in Threads : enc_counter_write(t)
    \/ \E t \in Threads : enc_store(t)

SpecEncConc == Init /\ [][NextEncConc]_vars

(***************************************************************************)
(* Differential-privacy analytics, one request at a time.                  *)
(***************************************************************************)
\* Line 399: math.sqrt(2 * math.log(1.25/delta)) / epsilon raises for
\* delta = 0 and epsilon = 0 (ZeroDivisionError), delta < 0 (math.log) and
\* delta > 1.25 (math.sqrt of a negative number).  delta is in millionths.
NoiseRaises(epsilon, delta) ==
    delta <= 0 \/ delta > 1250000 \/ epsilon = 0

\* Line 402.
Deduct(budget, epsilon) == budget - epsilon

\* The noisy answer (lines 397-400) is random and is not part of the state.
dp_analytics(epsilon, delta) ==
    /\ IF NoiseRaises(epsilon, delta)
       THEN /\ response' = Reply("dp_analytics", 500, "exception")
            /\ UNCHANGED privacy_budget
       ELSE /\ Deduct(privacy_budget, epsilon) >= -MaxOverdraw
            /\ Deduct(privacy_budget, epsilon) <= EpsilonInit + MaxOverdraw
            /\ privacy_budget' = Deduct(privacy_budget, epsilon)
            /\ response' = [op |-> "dp_analytics", status |-> 238,
                            message |-> "", epsilon_spent |-> epsilon,
                            delta |-> delta,
                            remaining |-> Deduct(privacy_budget, epsilon)]
    /\ UNCHANGED <<votingVars, ballotVars, ranked_ballots, audits, clock, threadVars>>

NextDP == \E epsilon \in EpsInputs, delta \in DeltaInputs :
              dp_analytics(epsilon, delta)

SpecDP == Init /\ [][NextDP]_vars

(***************************************************************************)
(* dp_analytics, one thread per request.  A step is one access to          *)
(* privacy_budget.                                                         *)
(***************************************************************************)
DPRequest(epsilon, delta) ==
    [op |-> "dp_analytics", epsilon |-> epsilon, delta |-> delta,
     status |-> 0, tmp |-> 0, remaining |-> 0]

\* Lines 380-400: the request is parsed and the noise drawn; no shared state
\* is read.
dp_begin(t, epsilon, delta) ==
    /\ pc[t] = "idle"
    /\ IF NoiseRaises(epsilon, delta)
       THEN /\ pc' = [pc EXCEPT ![t] = "done"]
            /\ loc' = [loc EXCEPT ![t] =
                          [DPRequest(epsilon, delta) EXCEPT !.status = 500]]
       ELSE /\ Goto(t, "budget_read")
            /\ loc' = [loc EXCEPT ![t] = DPRequest(epsilon, delta)]
    /\ UNCHANGED <<votingVars, ballotVars, privacy_budget, ranked_ballots, audits,
                   clock, response>>

\* Line 402, the load of privacy_budget["epsilon"] -= epsilon.
dp_budget_read(t) ==
    /\ pc[t] = "budget_read"
    /\ loc' = [loc EXCEPT ![t].tmp = privacy_budget]
    /\ Goto(t, "budget_write")
    /\ UNCHANGED <<votingVars, ballotVars, privacy_budget, ranked_ballots, audits,
                   clock, response>>

\* Line 402, the store.
dp_budget_write(t) ==
    /\ pc[t] = "budget_write"
    /\ privacy_budget' = Deduct(loc[t].tmp, loc[t].epsilon)
    /\ loc' = [loc EXCEPT ![t].tmp = 0]
    /\ Goto(t, "reply")
    /\ UNCHANGED <<votingVars, ballotVars, ranked_ballots, audits, clock,
                   response>>

\* Lines 404-413: the response reads privacy_budget again.
dp_reply(t) ==
    /\ pc[t] = "reply"
    /\ pc' = [pc EXCEPT ![t] = "done"]
    /\ loc' = [loc EXCEPT ![t].status = 238, ![t].remaining = privacy_budget]
    /\ UNCHANGED <<votingVars, ballotVars, privacy_budget, ranked_ballots, audits,
                   clock, response>>

NextDPConc ==
    \/ \E t \in Threads, epsilon \in EpsInputs, delta \in DeltaInputs :
         dp_begin(t, epsilon, delta)
    \/ \E t \in Threads : dp_budget_read(t)
    \/ \E t \in Threads : dp_budget_write(t)
    \/ \E t \in Threads : dp_reply(t)

SpecDPConc == Init /\ [][NextDPConc]_vars

(***************************************************************************)
(* Ranked ballots, one request at a time.                                  *)
(***************************************************************************)
RECURSIVE SumLen(_, _)
SumLen(f, S) ==
    IF S = {} THEN 0
    ELSE LET x == CHOOSE y \in S : TRUE IN Len(f[x]) + SumLen(f, S \ {x})

RankedCount == SumLen(ranked_ballots, Elections)

\* Lines 417-441: no check of any kind precedes the append; timestamp is the
\* client's.
ranked_ballot(election_id, voter_id, ranking, timestamp, drawn_id) ==
    /\ RankedCount < MaxRanked
    /\ ranked_ballots' = [ranked_ballots EXCEPT
                            ![election_id] = Append(@,
                               [ballot_id |-> drawn_id,
                                election_id |-> election_id,
                                voter_id |-> voter_id, ranking |-> ranking,
                                timestamp |-> timestamp,
                                status |-> "accepted"])]
    /\ response' = [op |-> "ranked_ballot", status |-> 239, message |-> "",
                    ballot_id |-> drawn_id]
    /\ UNCHANGED <<votingVars, ballotVars, privacy_budget, audits, clock,
                   threadVars>>

NextRanked ==
    \E e \in Elections, v \in VoterIds, r \in Rankings, ts \in 0..MaxClock,
       id \in RankedIdDraws : ranked_ballot(e, v, r, ts, id)

SpecRanked == Init /\ [][NextRanked]_vars

(***************************************************************************)
(* Homomorphic tally and risk-limiting audit plan, one request at a time.  *)
(***************************************************************************)
\* risk_limit_alpha of an audit_plan request, in hundredths (5 is the default
\* 0.05), and its reported tallies (the votes of candidates 1 and 2).
AlphaInputs == {0, 5, 50}
TallyInputs == {<<40321, 39997>>, <<60, 40>>, <<52, 48>>, <<50, 50>>, <<0, 0>>}
AuditTypes == {"ballot_polling"}
\* Values random.randint(0x1000, 0xffff) may return.
AuditIdDraws == {4096, 4097}
\* trustee_decrypt_shares of a homomorphic_tally request.
ShareLists == {<<>>, <<"share_1">>, <<"share_1", "share_2", "share_3">>}

SampleCap == 1200
Threshold == 3
LnScale == 10000

\* -2 * math.log(alpha) of line 459 in units of 1/LnScale.
NegTwoLnAlpha(alpha) ==
    CASE alpha = 1 -> 92103
      [] alpha = 5 -> 59915
      [] alpha = 50 -> 13863

Abs(x) == IF x < 0 THEN -x ELSE x

CeilDiv(a, b) == (a + b - 1) \div b

Min(a, b) == IF a < b THEN a ELSE b

\* Lines 457-459: ZeroDivisionError for total_votes = 0 and for margin = 0,
\* ValueError for math.log(alpha) with alpha <= 0.
AuditRaises(tallies, alpha) ==
    \/ tallies[1] + tallies[2] = 0
    \/ alpha <= 0
    \/ tallies[1] = tallies[2]

\* Lines 457-464: min(int(math.ceil(-2 * math.log(alpha) / margin ** 2)), 1200)
\* with margin = |v1 - v2| / total_votes.  When total_votes is at least 32
\* times the difference, 1 / margin ** 2 is at least 1024 and the uncapped
\* value is above 1200 for every alpha of AlphaInputs; the products below
\* stay within 32 bits otherwise.
initial_sample_size(tallies, alpha) ==
    LET total_votes == tallies[1] + tallies[2]
        diff == Abs(tallies[1] - tallies[2])
        k == NegTwoLnAlpha(alpha)
    IN IF total_votes \div diff >= 32 /\ k >= 11720
       THEN SampleCap
       ELSE Min(CeilDiv(k * total_votes * total_votes, LnScale * diff * diff),
                SampleCap)

\* Line 454: f"rla_{hex(drawn)[2:]}"; the constant prefix is left out.
AuditId(drawn) == HexDigits(drawn)

\* An audit record that starts in a status outside the life cycle.
NewAuditCreated(audit_id, election_id, sample_size, alpha, audit_type) ==
    [audit_id |-> audit_id, election_id |-> election_id,
     initial_sample_size |-> sample_size, test |-> "kaplan-markov",
     status |-> "created", risk_limit |-> alpha, audit_type |-> audit_type]

\* Lines 461-470; sampling_plan is a constant string.
NewAudit(audit_id, election_id, sample_size, alpha, audit_type) ==
    [audit_id |-> audit_id, election_id |-> election_id,
     initial_sample_size |-> sample_size, test |-> "kaplan-markov",
     status |-> "planned", risk_limit |-> alpha, audit_type |-> audit_type]

audit_plan(election_id, tallies, alpha, audit_type, drawn) ==
    /\ IF AuditRaises(tallies, alpha)
       THEN /\ response' = Reply("audit_plan", 500, "exception")
            /\ UNCHANGED audits
       ELSE LET audit == NewAudit(AuditId(drawn), election_id,
                                  initial_sample_size(tallies, alpha), alpha,
                                  audit_type)
            IN /\ audits' = Put(audits, audit.audit_id, audit)
               /\ response' = [op |-> "audit_plan", status |-> 240,
                               message |-> "", audit_id |-> audit.audit_id,
                               initial_sample_size |-> audit.initial_sample_size,
                               audit_status |-> "planned"]
    /\ UNCHANGED <<votingVars, ballotVars, privacy_budget, ranked_ballots,
                   clock, threadVars>>

\* Lines 350-375: trustee_shares is read and never used; the tallies are
\* constants.
homomorphic_tally(election_id, trustee_shares) ==
    /\ response' = [op |-> "homomorphic_tally", status |-> 237,
                    message |-> "", election_id |-> election_id,
                    candidate_tallies |-> <<40321, 39997>>,
                    threshold |-> "3-of-5"]
    /\ UNCHANGED <<votingVars, ballotVars, privacy_budget, ranked_ballots,
                   audits, clock, threadVars>>

NextAudit ==
    \/ \E e \in Elections, ts \in TallyInputs, a \in AlphaInputs,
          ty \in AuditTypes, d \in AuditIdDraws : audit_plan(e, ts, a, ty, d)
    \/ \E e \in Elections, sh \in ShareLists : homomorphic_tally(e, sh)

SpecAudit == Init /\ [][NextAudit]_vars

(***************************************************************************)
(* Properties.                                                             *)
(***************************************************************************)
VotesOf(voter_id) == {id \in DOMAIN votes : votes[id].voter_id = voter_id}

VotesFor(candidate_id) ==
    {id \in DOMAIN votes : votes[id].candidate_id = candidate_id}

RECURSIVE SumWeights(_)
SumWeights(ids) ==
    IF ids = {} THEN 0
    ELSE LET id == CHOOSE x \in ids : TRUE
         IN VoteWeight(votes[id]) + SumWeights(ids \ {id})

PairStored(election_id, nullifier) ==
    \E b \in DOMAIN encrypted_ballots :
        /\ encrypted_ballots[b].election_id = election_id
        /\ encrypted_ballots[b].nullifier = nullifier

Quiescent == \A t \in Threads : pc[t] \in {"idle", "done"}

Accepted(t) == pc[t] = "done" /\ loc[t].status \in {228, 234, 236}

\* C1: after any sequence of create_voter, update_voter, delete_voter,
\* cast_vote and cast_weighted_vote, the vote store holds at most one accepted
\* vote per voter_id.
C1_OneVotePerVoter == \A v \in VoterIds : Cardinality(VotesOf(v)) <= 1

\* C2: requests served one after the other.  (a) No two stored encrypted
\* ballots share an (election_id, nullifier) pair.  (b) A submission with a
\* valid proof whose (election_id, nullifier) pair is already stored is
\* answered 409 and changes neither the store nor the counter, whatever its
\* ciphertext.  (c) A submission with a valid proof whose nullifier no stored
\* ballot carries (the first of the two) is answered 236 and is stored under
\* a new id with its election, nullifier and ciphertext.  (b) and (c) are
\* stated of every step the handler can take from a reachable state.
C2_PairsUnique ==
    \A b1, b2 \in DOMAIN encrypted_ballots :
        (/\ encrypted_ballots[b1].election_id = encrypted_ballots[b2].election_id
         /\ encrypted_ballots[b1].nullifier = encrypted_ballots[b2].nullifier)
        => b1 = b2

\* What a step must do to count as a rejection with Conflict.
C2_Rejects == response'.status = 409 /\ UNCHANGED ballotVars

\* What a step must do to count as accepting and storing (e, n, c).
C2_Accepts(e, n, c) ==
    /\ response'.status = 236
    /\ \E b \in (DOMAIN encrypted_ballots') \ (DOMAIN encrypted_ballots) :
         /\ encrypted_ballots'[b].election_id = e
         /\ encrypted_ballots'[b].nullifier = n
         /\ encrypted_ballots'[b].ciphertext = c
    /\ \A b \in DOMAIN encrypted_ballots :
         /\ b \in DOMAIN encrypted_ballots'
         /\ encrypted_ballots'[b] = encrypted_ballots[b]

C2_SecondRejected ==
    \A e \in Elections, c \in Ciphertexts, p \in Proofs, n \in Nullifiers,
       s \in Signatures :
        (~ProofRejected(p) /\ PairStored(e, n))
        => ~ENABLED (encrypted_ballot(e, c, p, n, s) /\ ~C2_Rejects)

C2_FirstAccepted ==
    \A e \in Elections, c \in Ciphertexts, p \in Proofs, n \in Nullifiers,
       s \in Signatures :
        (~ProofRejected(p) /\ ~NullifierUsed(n))
        => /\ ~ENABLED (encrypted_ballot(e, c, p, n, s) /\ ~C2_Accepts(e, n, c))
           /\ ballot_counter < BallotCounterInit + MaxBallots
                => ENABLED encrypted_ballot(e, c, p, n, s)

C3_NullifierPerElection ==
    \A e \in Elections, c \in Ciphertexts, p \in Proofs, n \in Nullifiers,
       s \in Signatures :
        (~ProofRejected(p) /\ ~PairStored(e, n))
        => ~ENABLED (encrypted_ballot(e, c, p, n, s) /\ response'.status # 236)

\* C4: the remaining privacy budget is never negative.
C4_BudgetNonNegative == privacy_budget >= 0

\* C5: of the concurrent cast_vote / cast_weighted_vote requests of one
\* voter_id at most one is accepted, and once all requests have returned each
\* candidate's total is the sum of the weights of the accepted requests for
\* the candidate.
C5_AcceptedWeight(candidate_id) ==
    LET ts == {t \in Threads : Accepted(t) /\ loc[t].candidate_id = candidate_id}
        W[S \in SUBSET Threads] ==
            IF S = {} THEN 0
            ELSE LET t == CHOOSE x \in S : TRUE IN loc[t].weight + W[S \ {t}]
    IN W[ts]

C5_AtomicPerVoter ==
    /\ \A t1, t2 \in Threads :
         (Accepted(t1) /\ Accepted(t2) /\ loc[t1].voter_id = loc[t2].voter_id)
         => t1 = t2
    /\ Quiescent =>
         \A c \in DOMAIN candidates : candidates[c].votes = C5_AcceptedWeight(c)

\* C6: of the concurrent encrypted_ballot requests carrying one
\* (election_id, nullifier) pair at most one is accepted.
C6_AtomicPerNullifier ==
    \A t1, t2 \in Threads :
        (/\ Accepted(t1) /\ Accepted(t2)
         /\ loc[t1].election_id = loc[t2].election_id
         /\ loc[t1].nullifier = loc[t2].nullifier)
        => t1 = t2

\* C7: the ranked-ballot store holds at most one ballot per
\* (election_id, voter_id).
C7_OneRankedBallotPerVoter ==
    \A e \in Elections :
        \A i, j \in 1..Len(ranked_ballots[e]) :
            ranked_ballots[e][i].voter_id = ranked_ballots[e][j].voter_id
            => i = j

\* C8: every stored encrypted ballot carries a proof that passed the check
\* and a signature.
C8_ProofAndSignature ==
    \A b \in DOMAIN encrypted_ballots :
        /\ ~ProofRejected(encrypted_ballots[b].zk_proof)
        /\ encrypted_ballots[b].signature # ""

\* C9: whenever no request is in progress, each candidate's running count is
\* the sum of the weights of the votes stored for the candidate.
C9_CanonicalCount ==
    Quiescent =>
        \A c \in DOMAIN candidates :
            candidates[c].votes = SumWeights(VotesFor(c))

\* C10: each candidate's timeline has exactly one entry per vote stored for
\* the candidate, in increasing vote_id order.
C10_TimelineComplete ==
    \A c \in CandIds :
        /\ Len(vote_timeline[c]) = Cardinality(VotesFor(c))
        /\ {vote_timeline[c][i].vote_id : i \in 1..Len(vote_timeline[c])}
              = VotesFor(c)
        /\ \A i, j \in 1..Len(vote_timeline[c]) :
              i < j => vote_timeline[c][i].vote_id < vote_timeline[c][j].vote_id

\* C11: an audit_plan request whose tallies have a positive total and whose
\* risk limit lies strictly between 0 and 1 is answered with a plan whose
\* initial_sample_size is min(ceil(-2 ln(alpha) / margin^2), 1200), the cap
\* applying however small the margin is.
C11_ExpectedSample(tallies, alpha) ==
    IF tallies[1] = tallies[2] THEN SampleCap
    ELSE initial_sample_size(tallies, alpha)

C11_Planned(tallies, alpha) ==
    /\ response'.status = 240
    /\ response'.initial_sample_size = C11_ExpectedSample(tallies, alpha)
    /\ response'.initial_sample_size <= SampleCap

C11_SampleSize ==
    \A e \in Elections, ts \in TallyInputs, a \in AlphaInputs,
       ty \in AuditTypes, d \in AuditIdDraws :
        (ts[1] + ts[2] > 0 /\ 0 < a /\ a < 100)
        => ~ENABLED (audit_plan(e, ts, a, ty, d) /\ ~C11_Planned(ts, a))

\* C15: homomorphic_tally releases the tallies only when at least Threshold
\* trustee shares are supplied; with fewer shares, none included, the request
\* is refused and no tallies are returned.
C15_Released == response'.status = 237

C15_ThresholdGate ==
    \A e \in Elections, sh \in ShareLists :
        /\ Len(sh) < Threshold => ~ENABLED (homomorphic_tally(e, sh) /\ C15_Released)
        /\ Len(sh) >= Threshold => ~ENABLED (homomorphic_tally(e, sh) /\ ~C15_Released)

\* C16: every stored audit has one of the four statuses, a stored audit's
\* status changes only planned -> in_progress -> concluded or escalated, and
\* an audit that enters the store enters it as planned.
C16_Statuses == {"planned", "in_progress", "concluded", "escalated"}

C16_Moves ==
    {<<"planned", "in_progress">>, <<"in_progress", "concluded">>,
     <<"in_progress", "escalated">>}

C16_StatusesValid == \A a \in DOMAIN audits : audits[a].status \in C16_Statuses

C16_StepAllowed ==
    /\ \A a \in DOMAIN audits' \ DOMAIN audits : audits'[a].status = "planned"
    /\ \A a \in DOMAIN audits \cap DOMAIN audits' :
          \/ audits'[a].status = audits[a].status
          \/ <<audits[a].status, audits'[a].status>> \in C16_Moves

C16_AuditLifecycle == []C16_StatusesValid /\ [][C16_StepAllowed]_vars

C16_Witness ==
    /\ response.op = "audit_plan"
    /\ response.status = 240
    /\ Cardinality(DOMAIN audits) = 2
    /\ \A a \in DOMAIN audits : audits[a].status = "planned"

\* C18: every accepted audit plan is stored under an identifier that is not
\* yet in the audit store, and no step overwrites or removes a stored audit.
C18_AuditsKept ==
    \A a \in DOMAIN audits : a \in DOMAIN audits' /\ audits'[a] = audits[a]

C18_FreshAuditIds == [][C18_AuditsKept]_vars

\* C12: a range query with from > to is always answered with the
\* invalid-interval error, whether or not candidate_id exists, and a query
\* with from <= to is never answered with it.
C12_InvalidInterval == response'.status = 424

C12_RangeValidation ==
    \A c \in CandIds, f \in 0..MaxClock, t \in 0..MaxClock :
        /\ f > t => ~ENABLED (get_range_votes(c, f, t) /\ ~C12_InvalidInterval)
        /\ f <= t => ~ENABLED (get_range_votes(c, f, t) /\ C12_InvalidInterval)

\* C13: the remaining privacy budget never increases; an accepted query
\* lowers it by exactly the query's epsilon and returns the stored remainder;
\* a query with epsilon <= 0 is never accepted.
C13_BudgetStep ==
    /\ privacy_budget' <= privacy_budget
    /\ (response'.op = "dp_analytics" /\ response'.status = 238) =>
          /\ response'.epsilon_spent > 0
          /\ privacy_budget' = privacy_budget - response'.epsilon_spent
          /\ response'.remaining = privacy_budget'

C13_BudgetMonotone == [][C13_BudgetStep]_vars

\* C14: the budget check and the deduction of dp_analytics are one atomic
\* step: concurrent queries are never all accepted when the budget covers
\* only some of them, and once all requests have returned the budget is the
\* initial budget less the epsilons of the accepted queries.
C14_Answered == {t \in Threads : pc[t] = "done" /\ loc[t].status = 238}

C14_Spent == LET W[S \in SUBSET Threads] == IF S = {} THEN 0 ELSE LET t == CHOOSE x \in S : TRUE IN loc[t].epsilon + W[S \ {t}] IN W[C14_Answered]

C14_AtomicDeduction ==
    /\ C14_Spent <= EpsilonInit
    /\ Quiescent => privacy_budget = EpsilonInit - C14_Spent

\* C17: the Schulze resolution over the ranked ballots of an election
\* declares candidate i the unique winner exactly when p[i][j] > p[j][i] for
\* every other candidate j of the strongest-path matrix, and reports the
\* tie-set of undominated candidates otherwise.
C17_Pos(ranking, c) ==
    IF \E k \in 1..Len(ranking) : ranking[k] = c
    THEN CHOOSE k \in 1..Len(ranking) : ranking[k] = c
    ELSE Len(ranking) + 1

C17_d(e, i, j) ==
    Cardinality({k \in 1..Len(ranked_ballots[e]) :
        C17_Pos(ranked_ballots[e][k].ranking, i)
            < C17_Pos(ranked_ballots[e][k].ranking, j)})

C17_Max(a, b) == IF a > b THEN a ELSE b

RECURSIVE C17_Path(_, _, _, _)
C17_Path(e, k, i, j) ==
    IF k = 0
    THEN IF C17_d(e, i, j) > C17_d(e, j, i) THEN C17_d(e, i, j) ELSE 0
    ELSE C17_Max(C17_Path(e, k - 1, i, j),
                 Min(C17_Path(e, k - 1, i, k), C17_Path(e, k - 1, k, j)))

C17_p(e, i, j) == C17_Path(e, MaxCands, i, j)

C17_Winners(e) ==
    {i \in CandIds : \A j \in CandIds \ {i} : C17_p(e, i, j) > C17_p(e, j, i)}

C17_TieSet(e) ==
    {i \in CandIds : \A j \in CandIds \ {i} : C17_p(e, j, i) <= C17_p(e, i, j)}

C17_Resolved(e) ==
    IF C17_Winners(e) # {}
    THEN "winner" \in DOMAIN response /\ {response.winner} = C17_Winners(e)
    ELSE "tie_set" \in DOMAIN response /\ response.tie_set = C17_TieSet(e)

C17_SchulzeResolution ==
    (response.op = "ranked_ballot" /\ response.status = 239) =>
        \A e \in Elections :
            (/\ Len(ranked_ballots[e]) > 0
             /\ ranked_ballots[e][Len(ranked_ballots[e])].ballot_id
                   = response.ballot_id)
            => C17_Resolved(e)

\* C19: a cast_vote, cast_weighted_vote or encrypted_ballot request that is
\* answered with an error leaves the vote store, the has_voted flags, the
\* candidate counts, the timelines, the encrypted-ballot store and both id
\* counters unchanged.
C19_Rejected ==
    /\ response'.op \in {"cast_vote", "cast_weighted_vote", "encrypted_ballot"}
    /\ response'.status \notin {228, 234, 236}

C19_StoresUnchanged ==
    UNCHANGED <<votes, voters, candidates, vote_timeline, encrypted_ballots,
                vote_counter, ballot_counter>>

C19_RejectionChangesNothing == [][C19_Rejected => C19_StoresUnchanged]_vars

C19_Witness ==
    /\ response.op \in {"cast_vote", "cast_weighted_vote", "encrypted_ballot"}
    /\ response.status \in {409, 423}
    /\ DOMAIN votes # {}
    /\ DOMAIN encrypted_ballots # {}

=============================================================================
